---- MODULE Spec2Model ----
(***************************************************************************)
(* AudioScribe: the transcription pipeline of audioscribe_windows.py and   *)
(* audioscribe_mac.py as one state machine.  A behaviour is a sequence of  *)
(* transcribe() invocations of one variant on one host; each invocation    *)
(* walks the stages of the source in order.  The backends (whisperx,       *)
(* torch, the file system, the clock) are the environment: each backend    *)
(* call either returns a value drawn from a small set or raises.           *)
(*                                                                         *)
(* Text is modelled as a sequence of one-character strings, so that        *)
(* strip(), lower(), join() are computed and not assumed.  Error texts and *)
(* user messages are sequences of words.                                   *)
(***************************************************************************)
EXTENDS Integers, Sequences, FiniteSets, TLC

VARIABLES
    variant,          \* "windows" | "mac": which source file runs
    cuda_available,   \* torch.cuda.is_available()
    mps_available,    \* torch.backends.mps.is_available()
    ffmpeg_installed, \* shutil.which("ffmpeg") is not None
    token_file,       \* TOKEN_FILE: whether it exists, and its text
    model_cache,      \* _model_cache = {"key":, "model":}  (windows only)
    files,            \* names of the files in the output directory
    clock,            \* wall clock, in ticks of 1/TicksPerSecond s
    runs,             \* transcribe() invocations so far; a model handle is
                      \* named by the invocation that loaded it
    pc,               \* position of the current invocation
    req,              \* arguments of the current invocation
    device,           \* local: device
    token,            \* local: token (windows) / hf_token (mac)
    model,            \* local: model
    result,           \* local: result["segments"]
    coarse,           \* the segments as the Transcribe stage returned them
    log,              \* backend calls of the current invocation, in order;
                      \* "raise" follows a call that raised
    prog,             \* fractions passed to progress(), in order (percent)
    ret,              \* value returned by the current invocation
    exc,              \* local: e of "except Exception as e", or NoError
    saved             \* file written by the current invocation, or NoSave

vars == <<variant, cuda_available, mps_available, ffmpeg_installed, token_file,
          model_cache, files, clock, runs, pc, req, device, token,
          model, result, coarse, log, prog, ret, exc, saved>>

host == <<variant, cuda_available, mps_available, ffmpeg_installed>>

(***************************************************************************)
(* Bounds of the model.                                                    *)
(***************************************************************************)
MaxRuns == 2
MaxSegs == 2
MaxClock == 2

\* Times (the wall clock, the boundaries of a segment) are fixed-point
\* numbers: whole ticks of 1/TicksPerSecond second
TicksPerSecond == 2

\* the longest list of segments handed to the assembly on its own
MaxLines == 3

\* Python's None where a string is expected, an absent token file, no model
\* handle, an empty cache key, no file written
None == "None"
NoFile == [exists |-> FALSE, text |-> <<>>]
NoModel == 0
NoKey == <<>>
NoSave == <<>>
NoError == <<>>

(***************************************************************************)
(* Text helpers.                                                           *)
(***************************************************************************)
Whitespace == {" ", "\n", "\t"}

RECURSIVE LStrip(_)
LStrip(s) ==
    IF s = <<>> THEN <<>>
    ELSE IF Head(s) \in Whitespace THEN LStrip(Tail(s)) ELSE s

RECURSIVE RStrip(_)
RStrip(s) ==
    IF s = <<>> THEN <<>>
    ELSE IF s[Len(s)] \in Whitespace THEN RStrip(SubSeq(s, 1, Len(s) - 1)) ELSE s

\* str.strip()
Strip(s) == RStrip(LStrip(s))

\* sep.join(lines)
RECURSIVE Join(_, _)
Join(lines, sep) ==
    IF lines = <<>> THEN <<>>
    ELSE IF Len(lines) = 1 THEN lines[1]
    ELSE lines[1] \o sep \o Join(Tail(lines), sep)

\* str.lower(), one character (or one word of an error text) at a time
LowerOne(c) ==
    CASE c = "M" -> "m"
      [] c = "P" -> "p"
      [] c = "W" -> "w"
      [] c = "A" -> "a"
      [] c = "V" -> "v"
      [] c = "Out" -> "out"
      [] c = "Of" -> "of"
      [] c = "Memory" -> "memory"
      [] c = "CUDA" -> "cuda"
      [] c = "FFmpeg" -> "ffmpeg"
      [] OTHER -> c

Lower(s) == [i \in 1..Len(s) |-> LowerOne(s[i])]

\* needle in hay
Contains(hay, needle) ==
    \E i \in 0..(Len(hay) - Len(needle)) :
        SubSeq(hay, i + 1, i + Len(needle)) = needle

(***************************************************************************)
(* Program constants and input sets.                                       *)
(***************************************************************************)
\* AUDIO_FORMATS (mac)
AUDIO_FORMATS ==
    { <<".", "m", "p", "3">>, <<".", "w", "a", "v">>, <<".", "m", "4", "a">>,
      <<".", "a", "a", "c">>, <<".", "f", "l", "a", "c">>, <<".", "o", "g", "g">>,
      <<".", "w", "m", "a">> }

\* MODELS (the two smallest)
MODELS == {"tiny", "base"}

\* the language dropdown (one named language and auto-detection)
LanguageChoices == {"English", "Auto-detect"}

\* LANG_CODES.get(language), then None for "Auto-detect" (windows);
\* LANGUAGES.get(language), where "Auto-detect" maps to None (mac)
lang_code_of(language) ==
    IF language = "English" THEN "en" ELSE None

\* audio_path / audio_file: None, or a path with its stem and suffix
NoAudio == [given |-> FALSE, stem |-> <<>>, suffix |-> <<>>]

AudioPaths ==
    { NoAudio,
      [given |-> TRUE, stem |-> <<"a">>, suffix |-> <<".", "m", "p", "3">>],
      [given |-> TRUE, stem |-> <<"b">>, suffix |-> <<".", "M", "P", "3">>],
      [given |-> TRUE, stem |-> <<"a">>, suffix |-> <<".", "t", "x", "t">>] }

\* the token textbox: empty, blank, a token
TokenInputs == { <<>>, <<" ">>, <<"t">> }

\* segment texts and speaker labels the backends return
Texts == { <<" ">>, <<" ", "h", "i">> }
Speakers == { <<>>, <<"A">> }

\* texts of backend exceptions, word by word
OOM_ERROR == <<"CUDA", "out", "of", "memory">>
OOM_ERROR_UPPER == <<"CUDA", "Out", "Of", "Memory">>
DECODE_ERROR == <<"decode", "failed">>
ALIGN_ERROR == <<"no", "align", "model">>
WRITE_ERROR == <<"Permission", "denied">>
\* what each fatal backend call may raise
LoadErrors == {OOM_ERROR, DECODE_ERROR}
AudioErrors == {DECODE_ERROR}
TranscribeErrors == {OOM_ERROR, OOM_ERROR_UPPER, DECODE_ERROR}
AlignErrors == {ALIGN_ERROR}
WriteErrors == {WRITE_ERROR}

(***************************************************************************)
(* Pure functions of the source.                                           *)
(***************************************************************************)
\* get_device() of audioscribe_windows.py
get_device_windows(cuda) == IF cuda THEN "cuda" ELSE "cpu"

\* get_device() of audioscribe_mac.py
get_device_mac(cuda, mps) ==
    IF mps THEN "mps" ELSE IF cuda THEN "cuda" ELSE "cpu"

get_device(v, cuda, mps) ==
    IF v = "windows" THEN get_device_windows(cuda) ELSE get_device_mac(cuda, mps)

\* get_compute_type(device) of audioscribe_windows.py
get_compute_type_windows(d) == IF d = "cuda" THEN "float16" ELSE "int8"

\* get_compute_type(device) of audioscribe_mac.py
get_compute_type_mac(d) == IF d = "cuda" THEN "float16" ELSE "float32"

get_compute_type(v, d) ==
    IF v = "windows" THEN get_compute_type_windows(d) ELSE get_compute_type_mac(d)

\* load_token(), the same in both files
load_token(tf) == IF tf.exists THEN Strip(tf.text) ELSE <<>>

\* save_token(token) of audioscribe_windows.py: the file after the call
save_token_windows(tf, t) ==
    IF Strip(t) = <<>> THEN tf ELSE [exists |-> TRUE, text |-> Strip(t)]

\* save_token(token) of audioscribe_mac.py: the file after the call
save_token_mac(tf, t) == [exists |-> TRUE, text |-> Strip(t)]

save_token(v, tf, t) ==
    IF v = "windows" THEN save_token_windows(tf, t) ELSE save_token_mac(tf, t)

\* Path(audio_file).suffix.lower() not in AUDIO_FORMATS (mac)
unsupported_format(path) == Lower(path.suffix) \notin AUDIO_FORMATS

\* token = (hf_token or "").strip() or load_token()   (windows)
token_windows(hf_token, tf) ==
    IF Strip(hf_token) /= <<>> THEN Strip(hf_token) ELSE load_token(tf)

\* the token the diarization block tests and passes on: `token` in
\* audioscribe_windows.py, the argument hf_token itself in audioscribe_mac.py
effective_token(v, hf_token, tf) ==
    IF v = "windows" THEN token_windows(hf_token, tf) ELSE hf_token

\* the test that guards the diarization backend:
\* "if enable_diarization: if not token: ... else:" (windows),
\* "if enable_diarization and hf_token:" (mac)
diarization_runs(enable, t) == enable /\ t /= <<>>

\* cache_hit with the "is not None" test inverted
cache_hit_inverted(cache, key) == cache.key = key /\ cache.model = NoModel

\* key == _model_cache["key"] and _model_cache["model"] is not None
cache_hit(cache, key) == cache.key = key /\ cache.model /= NoModel

Digit(n) ==
    CASE n = 0 -> "0" [] n = 1 -> "1" [] n = 2 -> "2" [] n = 3 -> "3"
      [] n = 4 -> "4" [] n = 5 -> "5" [] n = 6 -> "6" [] n = 7 -> "7"
      [] n = 8 -> "8" [] n = 9 -> "9"

RECURSIVE Decimal(_)
Decimal(n) == IF n < 10 THEN <<Digit(n)>> ELSE Decimal(n \div 10) \o <<Digit(n % 10)>>

\* f"{n:02d}"
Pad2(n) == IF n < 10 THEN <<"0">> \o Decimal(n) ELSE Decimal(n)

\* format_timestamp that rounds to the nearest second instead of truncating
format_timestamp_rounds(seconds) ==
    LET nearest == ((2 * seconds + TicksPerSecond) \div (2 * TicksPerSecond))
        hours == nearest \div 3600
        minutes == (nearest % 3600) \div 60
        secs == nearest % 60
    IN  IF hours > 0
        THEN Pad2(hours) \o <<":">> \o Pad2(minutes) \o <<":">> \o Pad2(secs)
        ELSE Pad2(minutes) \o <<":">> \o Pad2(secs)

\* format_timestamp(seconds); seconds is a float, here in ticks:
\* int(seconds // 3600), int((seconds % 3600) // 60), int(seconds % 60)
format_timestamp(seconds) ==
    LET hours == seconds \div (3600 * TicksPerSecond)
        minutes == (seconds % (3600 * TicksPerSecond)) \div (60 * TicksPerSecond)
        secs == (seconds % (60 * TicksPerSecond)) \div TicksPerSecond
    IN  IF hours > 0
        THEN Pad2(hours) \o <<":">> \o Pad2(minutes) \o <<":">> \o Pad2(secs)
        ELSE Pad2(minutes) \o <<":">> \o Pad2(secs)

(***************************************************************************)
(* Messages returned to the caller, word by word.                          *)
(***************************************************************************)
UPLOAD_MSG == <<"Please", "upload", "an", "audio", "file.">>
FFMPEG_MSG == <<"FFmpeg", "is", "not", "installed.">>
UNSUPPORTED_MSG == <<"Unsupported", "file", "format.">>
NO_SPEECH_MSG == <<"No", "speech", "detected", "in", "the", "audio", "file.">>
OOM_MSG == <<"Out", "of", "GPU", "memory.", "Try", "a", "smaller", "model:",
             "tiny", "base", "small">>
SAVED_TO == <<"Saved", "to:">>

\* "out of memory" in msg.lower()
is_out_of_memory(e) == Contains(Lower(e), <<"out", "of", "memory">>)

\* "Try a smaller model" in a message
suggests_smaller_model(text) ==
    \E i \in 1..(Len(text) - 1) :
        text[i] = "smaller" /\ text[i + 1] \in {"model", "model:"}

\* the message of the windows handler that is not the out-of-memory one
failed_msg(e) ==
    LET hints0 == <<"Try", "a", "smaller", "model", "Ensure", "the", "audio",
                    "file", "is", "not", "corrupted">>
        hints == IF Contains(Lower(e), <<"ffmpeg">>)
                    \/ Contains(e, <<"FileNotFoundError">>)
                 THEN <<"Install", "FFmpeg:">> \o hints0
                 ELSE hints0
    IN  <<"Transcription", "failed:">> \o e \o <<"Suggestions:">> \o hints

\* the except block of audioscribe_windows.py: the message returned for e
handler_message_windows(e) ==
    IF is_out_of_memory(e) THEN OOM_MSG ELSE failed_msg(e)

\* the except block of audioscribe_mac.py: the message returned for e
handler_message_mac(e) == <<"Error", "during", "transcription:">> \o e

\* handler_message that reports a failure as an empty transcription
handler_message_swallows(v, e) == NO_SPEECH_MSG

\* the except block: the value transcribe returns for exception e
handler_message(v, e) ==
    IF v = "windows" THEN handler_message_windows(e) ELSE handler_message_mac(e)

\* the except block: the backend calls it makes ("if device == "cuda":
\* torch.cuda.empty_cache()" in audioscribe_windows.py, none in
\* audioscribe_mac.py)
handler_calls(v, d) ==
    IF v = "windows" /\ d = "cuda" THEN <<"empty_cache">> ELSE <<>>

\* the fractions passed to progress(), in percent, by the stage they announce
\* (audioscribe_windows.py announces the Transcribe stage together with the
\* audio load)
progress_windows(stage) ==
    CASE stage = "load_model" -> 5
      [] stage = "load_audio" -> 20
      [] stage = "align" -> 55
      [] stage = "diarize" -> 75
      [] stage = "save" -> 90
      [] stage = "done" -> 100

progress_mac(stage) ==
    CASE stage = "load_model" -> 10
      [] stage = "load_audio" -> 20
      [] stage = "transcribe" -> 30
      [] stage = "align" -> 60
      [] stage = "diarize" -> 70
      [] stage = "save" -> 90
      [] stage = "done" -> 100

\* progress_fraction with the speaker identification announced at one half
progress_fraction_diarize_half(v, stage) ==
    IF stage = "diarize" THEN 50
    ELSE IF v = "windows" THEN progress_windows(stage) ELSE progress_mac(stage)

progress_fraction(v, stage) ==
    IF v = "windows" THEN progress_windows(stage) ELSE progress_mac(stage)

Message(words) == [kind |-> "message", text |-> words, status |-> <<>>]
NoReturn == [kind |-> "none", text |-> <<>>, status |-> <<>>]

(***************************************************************************)
(* Transcript assembly.                                                    *)
(***************************************************************************)
\* speaker_changes without the "and speaker" test
speaker_changes_unset(enable, speaker, current_speaker) ==
    enable /\ speaker /= current_speaker

\* speaker_changes without the tests on the speaker
speaker_changes_always(enable, speaker, current_speaker) == enable

\* the marker test of the windows loop
\* "enable_diarization and speaker and speaker != current_speaker"
speaker_changes(enable, speaker, current_speaker) ==
    enable /\ speaker /= <<>> /\ speaker /= current_speaker

\* the windows loop over result["segments"]
RECURSIVE windows_lines(_, _, _)
windows_lines(segs, enable, current_speaker) ==
    IF segs = <<>> THEN <<>>
    ELSE LET seg == Head(segs)
             text == Strip(seg.text)
         IN  IF text = <<>>
             THEN windows_lines(Tail(segs), enable, current_speaker)
             ELSE IF speaker_changes(enable, seg.speaker, current_speaker)
             THEN << <<"\n", "[">> \o seg.speaker \o <<"]">>, text >>
                  \o windows_lines(Tail(segs), enable, seg.speaker)
             ELSE <<text>> \o windows_lines(Tail(segs), enable, current_speaker)

\* transcript = "\n".join(lines).strip()
windows_transcript(segs, enable) ==
    Strip(Join(windows_lines(segs, enable, <<>>), <<"\n">>))

\* one line of the mac loop
mac_line(seg) ==
    LET stamp == <<"[">> \o format_timestamp(seg.start) \o <<" ", "-", " ">>
                 \o format_timestamp(seg.end) \o <<"]">>
    IN  IF seg.speaker /= <<>>
        THEN stamp \o <<" ", "[">> \o seg.speaker \o <<"]", ":", " ">> \o Strip(seg.text)
        ELSE stamp \o <<":", " ">> \o Strip(seg.text)

\* transcript = "\n".join(transcript_lines)
mac_transcript(segs) ==
    Join([i \in 1..Len(segs) |-> mac_line(segs[i])], <<"\n">>)

\* full_text = " ".join(full_text_lines)
mac_full_text(segs) ==
    Join([i \in 1..Len(segs) |-> Strip(segs[i].text)], <<" ">>)

\* the transcript transcribe returns
transcript_of(v, segs, enable) ==
    IF v = "windows" THEN windows_transcript(segs, enable) ELSE mac_transcript(segs)

\* what is written to the output file
file_content(v, segs, enable) ==
    IF v = "windows"
    THEN <<windows_transcript(segs, enable)>>
    ELSE <<mac_transcript(segs), mac_full_text(segs)>>

\* datetime.now().strftime("%Y%m%d_%H%M%S"): the clock in whole seconds
timestamp_of(t) == t \div TicksPerSecond

\* out_file = DOWNLOADS / f"{audio_name}_{timestamp}.txt" (windows)
out_file_windows(path, t) == <<path.stem, "_", timestamp_of(t), ".txt">>

\* output_filename = f"{audio_path.stem}_transcript_{timestamp}.txt" (mac)
out_file_mac(path, t) == <<path.stem, "_transcript_", timestamp_of(t), ".txt">>

out_file(v, path, t) ==
    IF v = "windows" THEN out_file_windows(path, t) ELSE out_file_mac(path, t)

(***************************************************************************)
(* What the backends return.                                               *)
(***************************************************************************)
\* the i-th segment of model.transcribe, with its coarse timestamps (each
\* segment 50 s long)
CoarseSegment(i, text) ==
    [start |-> 50 * (i - 1) * TicksPerSecond, end |-> 50 * i * TicksPerSecond,
     text |-> text, speaker |-> <<>>]

TranscribeOutputs ==
    UNION { { [i \in 1..n |-> CoarseSegment(i, f[i])] : f \in [1..n -> Texts] }
            : n \in 0..MaxSegs }

\* by how many ticks whisperx.align tightens a boundary
AlignShifts == {1}

\* whisperx.align: the same segments with tighter boundaries
Aligned(segs, shift) ==
    [i \in 1..Len(segs) |->
        [segs[i] EXCEPT !.start = @ + shift, !.end = @ - shift]]

\* whisperx.assign_word_speakers: a speaker (or none) for every segment
Attributed(segs, f) ==
    [i \in 1..Len(segs) |-> [segs[i] EXCEPT !.speaker = f[i]]]

(***************************************************************************)
(* The state machine.                                                      *)
(***************************************************************************)
EmptyCache == [key |-> NoKey, model |-> NoModel]
NoRequest ==
    [audio_path |-> NoAudio, language |-> "English", model_size |-> "tiny",
     enable_diarization |-> FALSE, hf_token |-> <<>>]

\* The requests of the front end: the form's defaults with one group of
\* fields changed at a time (the file; the model and language; the speaker
\* identification fields).
DefaultRequest ==
    [audio_path |-> [given |-> TRUE, stem |-> <<"a">>, suffix |-> <<".", "m", "p", "3">>],
     language |-> "English", model_size |-> "tiny",
     enable_diarization |-> FALSE, hf_token |-> <<>>]

AllRequests ==
    [audio_path : AudioPaths, language : LanguageChoices, model_size : MODELS,
     enable_diarization : BOOLEAN, hf_token : TokenInputs]

Changed(r) ==
    (IF r.audio_path /= DefaultRequest.audio_path THEN 1 ELSE 0)
    + (IF <<r.language, r.model_size>>
          /= <<DefaultRequest.language, DefaultRequest.model_size>> THEN 1 ELSE 0)
    + (IF <<r.enable_diarization, r.hf_token>>
          /= <<DefaultRequest.enable_diarization, DefaultRequest.hf_token>> THEN 1 ELSE 0)

Requests == { r \in AllRequests : Changed(r) <= 1 }

Init ==
    /\ variant \in {"windows", "mac"}
    /\ cuda_available \in BOOLEAN
    /\ mps_available \in BOOLEAN
    /\ ffmpeg_installed \in BOOLEAN
    \* MPS is Apple's backend, and only the windows file reads ffmpeg_installed
    /\ variant = "windows" => ~mps_available
    /\ variant = "mac" => ffmpeg_installed
    /\ token_file = NoFile
    /\ model_cache = EmptyCache
    /\ files = {}
    /\ clock = 0
    /\ runs = 0
    /\ pc = "idle"
    /\ req = NoRequest
    /\ device = None
    /\ token = <<>>
    /\ model = NoModel
    /\ result = <<>>
    /\ coarse = <<>>
    /\ log = <<>>
    /\ prog = <<>>
    /\ ret = NoReturn
    /\ exc = NoError
    /\ saved = NoSave

\* key = (model_size, device, compute_type, lang_code)
cache_key ==
    <<req.model_size, device, get_compute_type(variant, device),
      lang_code_of(req.language)>>

\* cache_after_handler that drops the cached model
cache_after_handler_clears(cache) == [key |-> NoKey, model |-> NoModel]

\* _model_cache after the except block of transcribe: the block does not
\* name it (torch.cuda.empty_cache() frees unused blocks, not the model)
cache_after_handler(cache) == cache

\* an exception e reaches the except block of transcribe after the backend
\* calls `calls` were made, _model_cache being `cache` when it was raised
Raise(e, calls, cache) ==
    /\ log' = log \o calls \o <<"raise">> \o handler_calls(variant, device)
    /\ model_cache' = cache_after_handler(cache)
    /\ exc' = e
    /\ ret' = Message(handler_message(variant, e))
    /\ pc' = "done"

\* the "Save Token" button
SaveToken ==
    /\ pc = "idle"
    /\ \E t \in TokenInputs : token_file' = save_token(variant, token_file, t)
    /\ UNCHANGED <<host, model_cache, files, clock, runs, pc, req, device,
                   token, model, result, coarse, log, prog, ret, exc, saved>>

\* transcribe(...) up to the try block: the early returns and the locals
Call ==
    /\ pc = "idle"
    /\ runs < MaxRuns
    /\ runs' = runs + 1
    /\ \E r \in Requests :
        LET path == r.audio_path
            hf == r.hf_token
        IN
        /\ req' = r
        /\ IF ~path.given
           THEN /\ ret' = Message(UPLOAD_MSG)
                /\ pc' = "done"
                /\ UNCHANGED <<device, token>>
           ELSE IF variant = "windows" /\ ~ffmpeg_installed
           THEN /\ ret' = Message(FFMPEG_MSG)
                /\ pc' = "done"
                /\ UNCHANGED <<device, token>>
           ELSE IF variant = "mac" /\ unsupported_format(path)
           THEN /\ ret' = Message(UNSUPPORTED_MSG)
                /\ pc' = "done"
                /\ UNCHANGED <<device, token>>
           ELSE /\ device' = get_device(variant, cuda_available, mps_available)
                /\ token' = effective_token(variant, hf, token_file)
                /\ ret' = NoReturn
                /\ pc' = IF variant = "windows" THEN "get_model" ELSE "load_model"
    /\ UNCHANGED <<host, token_file, model_cache, files, clock, model,
                   result, coarse, log, prog, exc, saved>>

\* _get_model, cache hit: return _model_cache["model"]
get_model_hit ==
    /\ pc = "get_model"
    /\ cache_hit(model_cache, cache_key)
    /\ prog' = Append(prog, progress_fraction(variant, "load_model"))
    /\ model' = model_cache.model
    /\ pc' = "load_audio"
    /\ UNCHANGED <<host, token_file, model_cache, files, clock, runs, req,
                   device, token, result, coarse, log, ret, exc, saved>>

\* cache_after_free that forgets the model and keeps the key
cache_after_free_keeps_key(cache) == [cache EXCEPT !.model = NoModel]

\* del _model_cache["model"]; _model_cache = {"key": None, "model": None}
cache_after_free(cache) == EmptyCache

\* the backend calls of "Free previous model"
free_calls(d) == IF d = "cuda" THEN <<"empty_cache">> ELSE <<>>

\* _get_model, cache miss: free the previous model, then go on to load
get_model_miss ==
    /\ pc = "get_model"
    /\ ~cache_hit(model_cache, cache_key)
    /\ prog' = Append(prog, progress_fraction(variant, "load_model"))
    /\ IF model_cache.model /= NoModel
       THEN /\ model_cache' = cache_after_free(model_cache)
            /\ log' = log \o free_calls(device)
       ELSE UNCHANGED <<model_cache, log>>
    /\ pc' = "load_model"
    /\ UNCHANGED <<host, token_file, files, clock, runs, req, device, token,
                   model, result, coarse, ret, exc, saved>>

\* _model_cache after a successful whisperx.load_model (windows)
cache_after_load(cache, key, m) == [key |-> key, model |-> m]

\* cache_after_failed_load with the key stored before the load is attempted
cache_after_failed_load_partial(cache, key) == [key |-> key, model |-> NoModel]

\* _model_cache when whisperx.load_model raises: the assignment after the
\* call is not reached
cache_after_failed_load(cache, key) == cache

\* whisperx.load_model(...)
load_model ==
    /\ pc = "load_model"
    /\ prog' = IF variant = "mac"
               THEN Append(prog, progress_fraction(variant, "load_model"))
               ELSE prog
    /\ \/ /\ model' = runs
          /\ model_cache' = IF variant = "windows"
                            THEN cache_after_load(model_cache, cache_key, runs)
                            ELSE model_cache
          /\ log' = Append(log, "load_model")
          /\ pc' = "load_audio"
          /\ UNCHANGED <<ret, exc>>
       \/ /\ \E e \in LoadErrors :
                Raise(e, <<"load_model">>,
                      cache_after_failed_load(model_cache, cache_key))
          /\ UNCHANGED model
    /\ UNCHANGED <<host, token_file, files, clock, runs, req, device, token,
                   result, coarse, saved>>

\* whisperx.load_audio(audio_path)
load_audio ==
    /\ pc = "load_audio"
    /\ prog' = Append(prog, progress_fraction(variant, "load_audio"))
    /\ \/ /\ log' = Append(log, "load_audio")
          /\ pc' = "transcribe"
          /\ UNCHANGED <<ret, exc, model_cache>>
       \/ \E e \in AudioErrors : Raise(e, <<"load_audio">>, model_cache)
    /\ UNCHANGED <<host, token_file, files, clock, runs, req,
                   device, token, model, result, coarse, saved>>

\* model.transcribe(audio, batch_size=...)
transcribe_stage ==
    /\ pc = "transcribe"
    /\ prog' = IF variant = "mac"
               THEN Append(prog, progress_fraction(variant, "transcribe"))
               ELSE prog
    /\ \/ /\ \E segs \in TranscribeOutputs :
                /\ result' = segs
                /\ coarse' = segs
          /\ log' = Append(log, "transcribe")
          /\ pc' = "align"
          /\ UNCHANGED <<ret, exc, model_cache>>
       \/ /\ \E e \in TranscribeErrors : Raise(e, <<"transcribe">>, model_cache)
          /\ UNCHANGED <<result, coarse>>
    /\ UNCHANGED <<host, token_file, files, clock, runs, req,
                   device, token, model, saved>>

\* align_raises that makes the failed alignment calls a second time (windows)
align_raises_retries(e, calls) ==
    IF variant = "windows"
    THEN /\ log' = log \o calls \o <<"raise">> \o calls
         /\ pc' = "diarize"
         /\ UNCHANGED <<ret, exc, model_cache>>
    ELSE Raise(e, calls, model_cache)

\* what follows an exception e of the alignment calls `calls`: windows
\* catches it and goes on, mac has no try around the alignment
align_raises(e, calls) ==
    IF variant = "windows"
    THEN /\ log' = log \o calls \o <<"raise">>
         /\ pc' = "diarize"
         /\ UNCHANGED <<ret, exc, model_cache>>
    ELSE Raise(e, calls, model_cache)

\* whisperx.load_align_model(...) and whisperx.align(...)
align_stage ==
    /\ pc = "align"
    /\ prog' = Append(prog, progress_fraction(variant, "align"))
    /\ \/ /\ \E shift \in AlignShifts : result' = Aligned(result, shift)
          /\ log' = log \o <<"load_align_model", "align">>
          /\ pc' = "diarize"
          /\ UNCHANGED <<ret, exc, model_cache>>
       \/ /\ \E e \in AlignErrors : align_raises(e, <<"load_align_model">>)
          /\ UNCHANGED result
       \/ /\ \E e \in AlignErrors : align_raises(e, <<"load_align_model", "align">>)
          /\ UNCHANGED result
    /\ UNCHANGED <<host, token_file, files, clock, runs, req,
                   device, token, model, coarse, saved>>

\* the diarization block is not entered: diarization is disabled, or the
\* token is empty
diarize_skipped ==
    /\ pc = "diarize"
    /\ ~diarization_runs(req.enable_diarization, token)
    /\ pc' = "assemble"
    /\ UNCHANGED <<host, token_file, model_cache, files, clock, runs, req,
                   device, token, model, result, coarse, log, prog, ret, exc, saved>>

\* whisperx.DiarizationPipeline(...), diarize_model(audio) and
\* whisperx.assign_word_speakers(...), inside their try block.  `result` is
\* rebound only when assign_word_speakers returns.
diarize_stage ==
    /\ pc = "diarize"
    /\ diarization_runs(req.enable_diarization, token)
    /\ prog' = Append(prog, progress_fraction(variant, "diarize"))
    /\ \/ /\ \E f \in [1..Len(result) -> Speakers] : result' = Attributed(result, f)
          /\ log' = log \o <<"DiarizationPipeline", "diarize", "assign_word_speakers">>
       \/ /\ log' = log \o <<"DiarizationPipeline", "raise">>
          /\ UNCHANGED result
       \/ /\ log' = log \o <<"DiarizationPipeline", "diarize", "raise">>
          /\ UNCHANGED result
       \/ /\ log' = log \o <<"DiarizationPipeline", "diarize", "assign_word_speakers",
                            "raise">>
          /\ UNCHANGED result
    /\ pc' = "assemble"
    /\ UNCHANGED <<host, token_file, model_cache, files, clock, runs, req,
                   device, token, model, coarse, ret, exc, saved>>

\* "if not transcript: return ..." (windows)
no_speech ==
    /\ pc = "assemble"
    /\ variant = "windows"
    /\ windows_transcript(result, req.enable_diarization) = <<>>
    /\ prog' = Append(prog, progress_fraction(variant, "save"))
    /\ ret' = Message(NO_SPEECH_MSG)
    /\ pc' = "done"
    /\ UNCHANGED <<host, token_file, model_cache, files, clock, runs, req,
                   device, token, model, result, coarse, log, exc, saved>>

\* the backend calls after the file is written
after_write_calls(v, d) ==
    IF v = "windows" /\ d = "cuda" THEN <<"empty_cache">> ELSE <<>>

\* build the transcript and write it to out_file at clock reading t
save_transcript ==
    /\ pc = "assemble"
    /\ variant = "windows" => windows_transcript(result, req.enable_diarization) /= <<>>
    /\ \E t \in clock..MaxClock :
        LET name == out_file(variant, req.audio_path, t)
            text == transcript_of(variant, result, req.enable_diarization)
        IN  /\ clock' = t
            /\ \/ /\ files' = files \cup {name}
                  /\ saved' = <<name, file_content(variant, result, req.enable_diarization)>>
                  /\ log' = log \o <<"write">> \o after_write_calls(variant, device)
                  /\ prog' = prog \o <<progress_fraction(variant, "save"),
                                        progress_fraction(variant, "done")>>
                  /\ ret' = [kind |-> "transcript", text |-> text,
                             status |-> IF variant = "mac" THEN SAVED_TO ELSE <<>>]
                  /\ pc' = "done"
                  /\ UNCHANGED <<exc, model_cache>>
               \/ /\ prog' = Append(prog, progress_fraction(variant, "save"))
                  /\ \E e \in WriteErrors : Raise(e, <<"write">>, model_cache)
                  /\ UNCHANGED <<files, saved>>
    /\ UNCHANGED <<host, token_file, runs, req, device, token,
                   model, result, coarse>>

\* transcribe has returned; the front end waits for the next request
Return ==
    /\ pc = "done"
    /\ pc' = "idle"
    /\ req' = NoRequest
    /\ device' = None
    /\ token' = <<>>
    /\ model' = NoModel
    /\ result' = <<>>
    /\ coarse' = <<>>
    /\ log' = <<>>
    /\ prog' = <<>>
    /\ ret' = NoReturn
    /\ exc' = NoError
    /\ saved' = NoSave
    /\ UNCHANGED <<host, token_file, model_cache, files, clock, runs>>

Next ==
    \/ SaveToken
    \/ Call
    \/ get_model_hit
    \/ get_model_miss
    \/ load_model
    \/ load_audio
    \/ transcribe_stage
    \/ align_stage
    \/ diarize_skipped
    \/ diarize_stage
    \/ no_speech
    \/ save_transcript
    \/ Return

Spec == Init /\ [][Next]_vars

(***************************************************************************)
(* The assembly on its own.  A run has reached "Build transcript" /        *)
(* "Format output" with the segments the backends handed it: any texts,    *)
(* any speaker labels when speaker identification ran, any boundaries.     *)
(***************************************************************************)
\* labels whisperx.assign_word_speakers gives a segment (or none)
SpeakerLabels == { <<>>, <<"A">>, <<"B">> }

\* segment boundaries, in whole seconds and with a fraction
WholeSeconds == {0, 59, 125, 3599, 3600, 3725}
TimestampInputs ==
    { w * TicksPerSecond + f : w \in WholeSeconds, f \in 0..(TicksPerSecond - 1) }

\* up to MaxLines segments, each with a text and a label
LabelledSegments(labels) ==
    UNION { { [i \in 1..n |-> [CoarseSegment(i, t[i]) EXCEPT !.speaker = l[i]]]
                : t \in [1..n -> Texts], l \in [1..n -> labels] }
            : n \in 0..MaxLines }

\* one segment with any boundaries
TimedSegments ==
    { << [start |-> b, end |-> e, text |-> <<" ", "h", "i">>, speaker |-> <<>>] >>
        : b \in TimestampInputs, e \in TimestampInputs }

\* the request of a run whose segments carry labels, and of one whose
\* segments do not
AssembleRequest(enable) ==
    [DefaultRequest EXCEPT !.enable_diarization = enable,
                           !.hf_token = IF enable THEN <<"t">> ELSE <<>>]

\* the backend calls and the progress reports of a run up to the assembly
calls_before_assembly(enable) ==
    <<"load_model", "load_audio", "transcribe", "load_align_model", "align">>
    \o (IF enable THEN <<"DiarizationPipeline", "diarize", "assign_word_speakers">>
        ELSE <<>>)

progress_before_assembly(v, enable) ==
    LET stages == IF v = "windows"
                  THEN <<"load_model", "load_audio", "align">>
                  ELSE <<"load_model", "load_audio", "transcribe", "align">>
        reported == IF enable THEN Append(stages, "diarize") ELSE stages
    IN  [i \in 1..Len(reported) |-> progress_fraction(v, reported[i])]

InitAssemble ==
    /\ variant \in {"windows", "mac"}
    /\ cuda_available = FALSE
    /\ mps_available = FALSE
    /\ ffmpeg_installed = TRUE
    /\ token_file = NoFile
    /\ files = {}
    /\ clock = 0
    /\ runs = 1
    /\ pc = "assemble"
    /\ req \in { AssembleRequest(enable) : enable \in BOOLEAN }
    /\ device = "cpu"
    /\ token = req.hf_token
    /\ model = 1
    /\ model_cache = IF variant = "windows"
                     THEN [key |-> <<req.model_size, "cpu", "int8",
                                     lang_code_of(req.language)>>,
                           model |-> 1]
                     ELSE EmptyCache
    /\ result \in TimedSegments \cup
                  LabelledSegments(IF req.enable_diarization
                                   THEN SpeakerLabels ELSE { <<>> })
    /\ coarse = [i \in 1..Len(result) |-> [result[i] EXCEPT !.speaker = <<>>]]
    /\ log = calls_before_assembly(req.enable_diarization)
    /\ prog = progress_before_assembly(variant, req.enable_diarization)
    /\ ret = NoReturn
    /\ exc = NoError
    /\ saved = NoSave

NextAssemble ==
    \/ no_speech
    \/ save_transcript

SpecAssemble == InitAssemble /\ [][NextAssemble]_vars

(***************************************************************************)
(* The host between invocations.  get_device() asks                        *)
(* torch.cuda.is_available() anew in every transcribe(); the answer is the *)
(* driver's and may differ from one invocation to the next (the GPU is     *)
(* lost or comes back).                                                    *)
(***************************************************************************)
cuda_changes ==
    /\ pc = "idle"
    /\ cuda_available' = ~cuda_available
    /\ UNCHANGED <<variant, mps_available, ffmpeg_installed, token_file,
                   model_cache, files, clock, runs, pc, req, device, token,
                   model, result, coarse, log, prog, ret, exc, saved>>

NextDevices ==
    \/ SaveToken
    \/ Call
    \/ get_model_hit
    \/ get_model_miss
    \/ load_model
    \/ load_audio
    \/ transcribe_stage
    \/ align_stage
    \/ diarize_skipped
    \/ diarize_stage
    \/ no_speech
    \/ save_transcript
    \/ Return
    \/ cuda_changes

SpecDevices == Init /\ [][NextDevices]_vars

(***************************************************************************)
(* Properties.                                                             *)
(***************************************************************************)
Range(s) == { s[i] : i \in 1..Len(s) }

\* the backend call that raised into the except block of transcribe, if any
RaisedIn(call) ==
    /\ pc = "done"
    /\ exc /= NoError
    /\ \E i \in 1..(Len(log) - 1) : log[i] = call /\ log[i + 1] = "raise"

\* C1: an acquisition whose key equals the cached key returns the cached
\* handle, makes no whisperx.load_model call and leaves the cache unchanged.
C1_CacheHit ==
    [][ ( /\ pc = "get_model"
          /\ model_cache.model /= NoModel
          /\ model_cache.key = <<req.model_size, device,
                                 get_compute_type(variant, device),
                                 lang_code_of(req.language)>> )
        => ( /\ model' = model_cache.model
             /\ model_cache' = model_cache
             /\ log' = log
             /\ pc' = "load_audio" ) ]_vars

\* C1 witness: the second invocation was served the handle the first one
\* loaded, with no backend load of its own.
C1_Witness ==
    /\ pc = "load_audio"
    /\ runs = 2
    /\ model = 1
    /\ model_cache.model = 1
    /\ log = <<>>

\* C2: while whisperx.load_model runs in _get_model the cache holds no entry
\* (the prior entry, key and model, was cleared first), and the cache never
\* holds a key without a model or a model without a key.
C2_ReleaseBeforeLoad ==
    /\ (variant = "windows" /\ pc = "load_model") => model_cache = EmptyCache
    /\ (model_cache.key = NoKey) <=> (model_cache.model = NoModel)

\* C2 witness: a load is about to start after a cached model was freed (the
\* free is visible on cuda as the empty_cache call).
C2_Witness ==
    /\ variant = "windows"
    /\ pc = "load_model"
    /\ runs = 2
    /\ log = <<"empty_cache">>
    /\ model_cache = EmptyCache

\* C3: when whisperx.load_model raises in _get_model the error reaches the
\* caller and the cache is empty, whatever it held before the call.
C3_LoadFailureEmptiesCache ==
    (variant = "windows" /\ RaisedIn("load_model"))
        => /\ model_cache = EmptyCache
           /\ model = NoModel
           /\ exc \in LoadErrors
           /\ \A size \in MODELS, language \in LanguageChoices :
                ~( /\ model_cache.model /= NoModel
                   /\ model_cache.key = <<size, device,
                                          get_compute_type(variant, device),
                                          lang_code_of(language)>> )

\* C3 witness: the load failed after a cached entry under another key was
\* freed.
C3_Witness ==
    /\ variant = "windows"
    /\ RaisedIn("load_model")
    /\ runs = 2
    /\ log = <<"empty_cache", "load_model", "raise", "empty_cache">>

\* C4 (as claimed): a request with an unsupported extension is answered by a
\* message with no backend call, no pipeline stage entered and the cache as
\* it was.
C4_RejectedBeforeAnyLoad ==
    [][ ( /\ pc = "idle"
          /\ pc' /= "idle"
          /\ req'.audio_path.given
          /\ Lower(req'.audio_path.suffix) \notin AUDIO_FORMATS )
        => ( /\ pc' = "done"
             /\ ret'.kind = "message"
             /\ log' = <<>>
             /\ model_cache' = model_cache ) ]_vars

\* C5 (as claimed): the alignment stage never ends the run; when it raises,
\* the segments stay the ones of the Transcribe stage.
C5_AlignmentBestEffort ==
    [][ pc = "align"
        => ( /\ pc' = "diarize"
             /\ ret' = ret
             /\ (log'[Len(log')] = "raise" => result' = coarse) ) ]_vars

\* the diarization block was entered and one of its three calls raised
DiarizationFailed ==
    \E i \in 1..(Len(log) - 1) :
        /\ log[i] \in {"DiarizationPipeline", "diarize", "assign_word_speakers"}
        /\ log[i + 1] = "raise"

\* C6: a run whose diarization raised returns and saves what the run with
\* diarization disabled returns and saves for the same segments.
C6_DiarizationFailureInvisible ==
    (pc = "done" /\ DiarizationFailed /\ exc = NoError)
        => /\ req.enable_diarization
           /\ IF variant = "windows" /\ windows_transcript(result, FALSE) = <<>>
              THEN ret = Message(NO_SPEECH_MSG) /\ saved = NoSave
              ELSE /\ ret.kind = "transcript"
                   /\ ret.text = transcript_of(variant, result, FALSE)
                   /\ saved /= NoSave
                   /\ saved[2] = file_content(variant, result, FALSE)

\* C6 witness: diarization raised and a transcript with text was saved.
C6_Witness ==
    /\ pc = "done"
    /\ DiarizationFailed
    /\ ret.kind = "transcript"
    /\ ret.text /= <<>>
    /\ saved /= NoSave
    /\ Len(result) = 2

\* the effective token of C7: the request's when it is not blank,
\* else the persisted one
EffectiveToken ==
    IF Strip(req.hf_token) /= <<>> THEN req.hf_token ELSE load_token(token_file)

\* C7 (as claimed): the diarization backend is called only when speaker
\* identification is enabled and the effective token is not empty.
C7_DiarizationGated ==
    "DiarizationPipeline" \in Range(log)
        => (req.enable_diarization /\ EffectiveToken /= <<>>)

\* C8 (as claimed): when the Transcribe stage raises an out-of-memory error
\* on an accelerator, the message suggests a smaller model and the
\* accelerator cache is released before transcribe returns.
C8_OutOfMemoryHandled ==
    ( /\ RaisedIn("transcribe")
      /\ Contains(Lower(exc), <<"out", "of", "memory">>)
      /\ device /= "cpu" )
        => /\ ret.kind = "message"
           /\ suggests_smaller_model(ret.text)
           /\ \E i \in 1..Len(log), j \in 1..Len(log) :
                i < j /\ log[i] = "raise" /\ log[j] = "empty_cache"

\* C9: a run in which the model load, the audio load or the Transcribe stage
\* raised returns one error message that reports the error, no transcript
\* and no save location, and writes no file.
C9_FatalNoPartialResult ==
    (RaisedIn("load_model") \/ RaisedIn("load_audio") \/ RaisedIn("transcribe"))
        => /\ ret.kind = "message"
           /\ ret.status = <<>>
           /\ \/ Contains(ret.text, exc)
              \/ (variant = "windows" /\ ret.text = OOM_MSG)
           /\ ret.text \notin {NO_SPEECH_MSG, <<>>}
           /\ saved = NoSave
           /\ "write" \notin Range(log)
           /\ 100 \notin Range(prog)

\* C9 witness: the Transcribe stage raised in a second run, after a first
\* run had saved a file.
C9_Witness ==
    /\ RaisedIn("transcribe")
    /\ runs = 2
    /\ files /= {}
    /\ ret.kind = "message"

\* C10 (as claimed): a successful run writes a file that did not exist.
C10_WriteOnce ==
    [][ (pc = "assemble" /\ saved' /= NoSave) => saved'[1] \notin files ]_vars

\* C11 (as claimed): the device of a run is cuda whenever cuda is available,
\* mps only when cuda is not available and mps is, cpu only when neither is;
\* and the precision is float16 exactly when the device is cuda.
C11_DevicePriority ==
    (pc \notin {"idle"} /\ device /= None)
        => /\ device = (IF cuda_available THEN "cuda"
                        ELSE IF mps_available THEN "mps" ELSE "cpu")
           /\ (get_compute_type(variant, device) = "float16") <=> (device = "cuda")

\* the run on audioscribe_windows.py has returned a transcript
WindowsTranscript ==
    /\ variant = "windows"
    /\ pc = "done"
    /\ ret.kind = "transcript"

\* the segment has text after trimming
HasText(seg) == Strip(seg.text) /= <<>>

\* the speaker of the nearest segment before the i-th that has text and a
\* speaker, or no speaker when there is none
BlockSpeaker(segs, i) ==
    LET before == { j \in 1..(i - 1) : HasText(segs[j]) /\ segs[j].speaker /= <<>> }
    IN  IF before = {} THEN <<>>
        ELSE segs[CHOOSE j \in before : \A k \in before : k <= j].speaker

\* the speaker of the segment immediately before the i-th, among the
\* segments that are rendered (those with text); no speaker for the first
PrecedingSpeaker(segs, i) ==
    LET before == { j \in 1..(i - 1) : HasText(segs[j]) }
    IN  IF before = {} THEN <<>>
        ELSE segs[CHOOSE j \in before : \A k \in before : k <= j].speaker

\* the lines of the speaker-block transcript from the i-th segment on, with
\* a marker before the text of the segments `marked`
RECURSIVE BlockLines(_, _, _)
BlockLines(segs, i, marked) ==
    IF i > Len(segs) THEN <<>>
    ELSE (IF ~HasText(segs[i]) THEN <<>>
          ELSE IF i \in marked
          THEN << <<"\n", "[">> \o segs[i].speaker \o <<"]">>, Strip(segs[i].text) >>
          ELSE << Strip(segs[i].text) >>)
         \o BlockLines(segs, i + 1, marked)

BlockTranscript(segs, marked) == Strip(Join(BlockLines(segs, 1, marked), <<"\n">>))

\* C12: in the windows transcript a marker "[speaker]" stands before a
\* segment's text exactly when speaker identification is enabled, the
\* segment has a speaker, and that speaker differs from the speaker of the
\* nearest earlier segment that has text and a speaker (or there is none).
C12_MarkerOnSpeakerChange ==
    WindowsTranscript =>
        ret.text = BlockTranscript(result,
            { i \in 1..Len(result) :
                /\ req.enable_diarization
                /\ result[i].speaker /= <<>>
                /\ result[i].speaker /= BlockSpeaker(result, i) })

\* C12 (as claimed): a marker stands before a segment's text exactly when
\* the segment's speaker differs from the speaker of the segment immediately
\* before it (so A, <no speaker>, A has the marker for A twice).
C12_MarkerWhenPrecedingDiffers ==
    WindowsTranscript =>
        ret.text = BlockTranscript(result,
            { i \in 1..Len(result) :
                /\ result[i].speaker /= <<>>
                /\ result[i].speaker /= PrecedingSpeaker(result, i) })

\* C12 witness: the segments A, <no speaker>, A, all with text, were
\* rendered with the marker for A once.
C12_Witness ==
    /\ WindowsTranscript
    /\ Len(result) = 3
    /\ \A i \in 1..3 : HasText(result[i])
    /\ result[1].speaker = <<"A">>
    /\ result[2].speaker = <<>>
    /\ result[3].speaker = <<"A">>
    /\ ret.text = <<"[", "A", "]", "\n", "h", "i", "\n", "h", "i", "\n", "h", "i">>

\* the run on audioscribe_mac.py has saved its transcript
MacTranscript ==
    /\ variant = "mac"
    /\ pc = "done"
    /\ ret.kind = "transcript"

\* a time of day s whole seconds long as MM:SS below one hour, as HH:MM:SS
\* from one hour on
ClockText(s) ==
    IF s < 3600
    THEN Pad2(s \div 60) \o <<":">> \o Pad2(s % 60)
    ELSE Pad2(s \div 3600) \o <<":">> \o Pad2((s % 3600) \div 60)
         \o <<":">> \o Pad2(s % 60)

\* the whole seconds of a time in ticks, its fraction dropped
WholeSecondsOf(ticks) == ticks \div TicksPerSecond

\* the line of one segment, its boundaries rendered by ClockText
StampedLine(seg) ==
    <<"[">> \o ClockText(WholeSecondsOf(seg.start)) \o <<" ", "-", " ">>
    \o ClockText(WholeSecondsOf(seg.end)) \o <<"]">>
    \o (IF seg.speaker /= <<>> THEN <<" ", "[">> \o seg.speaker \o <<"]">> ELSE <<>>)
    \o <<":", " ">> \o Strip(seg.text)

C14_EmptySegmentsDropped ==
    (pc = "done" /\ saved /= NoSave) =>
        /\ ret.text = transcript_of(variant, SelectSeq(result, HasText),
                                    req.enable_diarization)
        /\ saved[2] = file_content(variant, SelectSeq(result, HasText),
                                   req.enable_diarization)

\* C15 (as claimed): whenever _get_model evicts an entry whose key names the
\* device cuda, torch.cuda.empty_cache() is called in that step, before the
\* replacement is loaded, whatever the requested key.
C15_ReleaseOnEviction ==
    [][ ( /\ pc = "get_model"
          /\ model_cache.model /= NoModel
          /\ model_cache'.model = NoModel
          /\ model_cache.key[2] = "cuda" )
        => ( /\ log' = log \o <<"empty_cache">>
             /\ pc' = "load_model"
             /\ "load_model" \notin Range(log') ) ]_vars

\* C16: within one invocation the fractions passed to progress() are
\* strictly increasing and lie in [0, 1] (0..100 percent), and 1.0 is
\* reported only by a run that saved its transcript.
C16_ProgressMonotone ==
    /\ \A i \in 1..Len(prog) : prog[i] >= 0 /\ prog[i] <= 100
    /\ \A i \in 1..Len(prog) : \A j \in 1..Len(prog) : i < j => prog[i] < prog[j]
    /\ 100 \in Range(prog) => saved /= NoSave

\* C16 witness: a windows run whose alignment raised and whose speaker
\* identification ran has reported 0.05, 0.2, 0.55, 0.75, 0.9, 1.0.
C16_Witness ==
    /\ variant = "windows"
    /\ pc = "done"
    /\ saved /= NoSave
    /\ \E i \in 1..(Len(log) - 1) : log[i] = "load_align_model" /\ log[i + 1] = "raise"
    /\ "DiarizationPipeline" \in Range(log)
    /\ prog = <<5, 20, 55, 75, 90, 100>>

\* the backend operations of the pipeline, as they appear in log
BackendOperations ==
    {"load_model", "load_audio", "transcribe", "load_align_model", "align",
     "DiarizationPipeline", "diarize", "assign_word_speakers", "write"}

\* how often the current invocation has made the call
Calls(call) == Cardinality({ i \in 1..Len(log) : log[i] = call })

\* C17: within one invocation every backend operation is invoked at most
\* once, so no failure makes the failed operation or an earlier one run
\* again; and after the failure that reached the except block of transcribe
\* no backend operation is invoked at all.
C17_NoRetries ==
    /\ \A op \in BackendOperations : Calls(op) <= 1
    /\ exc /= NoError =>
        /\ pc = "done"
        /\ \E i \in 1..Len(log) :
            /\ log[i] = "raise"
            /\ \A j \in (i + 1)..Len(log) : log[j] \notin BackendOperations

\* C17 witness: a windows run whose alignment raised, whose speaker
\* identification raised and whose file write raised made each call once.
C17_Witness ==
    /\ variant = "windows"
    /\ pc = "done"
    /\ device = "cpu"
    /\ exc = WRITE_ERROR
    /\ log = <<"load_model", "load_audio", "transcribe", "load_align_model", "raise",
               "DiarizationPipeline", "raise", "write", "raise">>

\* a windows run failed into the except block of transcribe after
\* _get_model had returned: in the audio load, in the Transcribe stage or in
\* the file write
FailedAfterGetModel ==
    /\ variant = "windows"
    /\ (RaisedIn("load_audio") \/ RaisedIn("transcribe") \/ RaisedIn("write"))

\* C18: when a windows run has failed after _get_model returned, the cache
\* still holds the run's key and the run's model, so that the hit test of the
\* same parameters succeeds; and no step outside _get_model (the failing
\* stage and its handler, the return, the next call up to _get_model)
\* changes the cache.
C18_CacheSurvivesFailure ==
    /\ [](FailedAfterGetModel =>
            /\ model /= NoModel
            /\ model_cache = [key |-> cache_key, model |-> model]
            /\ cache_hit(model_cache, cache_key))
    /\ [][ (variant = "windows" /\ pc \notin {"get_model", "load_model"})
           => model_cache' = model_cache ]_vars

\* C18 witness: the second windows run, on cuda, ran out of memory in the
\* Transcribe stage; it had been served the first run's model and the cache
\* still holds it.
C18_Witness ==
    /\ FailedAfterGetModel
    /\ runs = 2
    /\ device = "cuda"
    /\ is_out_of_memory(exc)
    /\ log = <<"load_audio", "transcribe", "raise", "empty_cache">>
    /\ model = 1
    /\ model_cache.model = 1

====
